---- MODULE Spec2Model ----
(***************************************************************************)
(* Verification model of the uRustBook samples:                            *)
(*   docs/Q8_Iterators/iterator.rs   Counter                               *)
(*   docs/Q8_Iterators/iterator2.rs  MyVectorIter, FullVectorIter          *)
(*   src/10_trait_objects.rs         PluginManager                         *)
(*   docs/Quiz/Q2_Loops/code.rs      iterator adaptors used by main        *)
(* Option<T> is modelled as a sequence: <<>> is None, <<v>> is Some(v).    *)
(***************************************************************************)
EXTENDS Integers, Sequences, FiniteSets, TLC

VARIABLES
    \* iterator.rs: Counter, what its last next() returned, whether a call
    \* has returned None, and the returns up to and including the first None
    count, max, cRet, cState, cExhausted, cHist,
    \* iterator2.rs: the vector, the two cursors and what their calls returned;
    \* fvLens[k] is what len() of the FullVectorIter was when call k was made
    data, mvIndex, mvRets, fvIndex, fvRets, fvLens,
    \* 10_trait_objects.rs: the registry, the register calls made so far, and
    \* the position and the calls of the run_all in progress (or last finished)
    plugins, registered, pPc, pI, pOut,
    \* code.rs [4]: the Range under the Peekable, its peeked slot, the last
    \* call and its return value, the while loop's position and its prints
    rStart, rEnd, peeked, pkOp, pkRet, pkPc, emitted,
    \* code.rs [50]: the RangeFrom, what Take has left, the for loop's
    \* position and its prints
    lzSrc, lzTake, lzPc, lzOut,
    \* code.rs [9], [10], [47]: the array, the size given to windows and to
    \* chunks, the slice each iterator still holds, whether it has returned
    \* None, and what collect gathered
    arr, size, wRest, wDone, wOut, chRest, chDone, chOut,
    \* code.rs [20a], [20b]: the elements of the range, the consumer called
    \* on it with its closure and initial value, what the range has left, the
    \* accumulator, the consumer's position, its result and the calls of the
    \* closure it made
    fXs, fOp, fF, fInit, fRem, fAcc, fPc, fRes, fCalls,
    \* code.rs [46]: the string, what Split has not passed yet, its finished
    \* flag, what collect gathered and whether collect has ended
    tInput, tRest, tFinished, tOut, tDone

cvars == <<count, max, cRet, cState, cExhausted, cHist>>
vvars == <<data, mvIndex, mvRets, fvIndex, fvRets, fvLens>>
pvars == <<plugins, registered, pPc, pI, pOut>>
kvars == <<rStart, rEnd, peeked, pkOp, pkRet, pkPc, emitted>>
lvars == <<lzSrc, lzTake, lzPc, lzOut>>
ivars == <<kvars, lvars>>
svars == <<arr, size, wRest, wDone, wOut, chRest, chDone, chOut>>
fvars == <<fXs, fOp, fF, fInit, fRem, fAcc, fPc, fRes, fCalls>>
tvars == <<tInput, tRest, tFinished, tOut, tDone>>
vars == <<cvars, vvars, pvars, ivars, svars, fvars, tvars>>

NoneV == <<>>
Some(v) == <<v>>

(***************************************************************************)
(* Each sample is a program of its own.  While one is explored the state   *)
(* of the others stays at these values.                                    *)
(***************************************************************************)
CounterIdle ==
    /\ count = 0
    /\ max = 0
    /\ cRet = NoneV
    /\ cState = "fresh"
    /\ cExhausted = FALSE
    /\ cHist = <<>>

VecIdle ==
    /\ data = <<>>
    /\ mvIndex = 0
    /\ mvRets = <<>>
    /\ fvIndex = 0
    /\ fvRets = <<>>
    /\ fvLens = <<>>

PluginIdle ==
    /\ plugins = <<>>
    /\ registered = <<>>
    /\ pPc = "idle"
    /\ pI = 0
    /\ pOut = <<>>

IterIdle ==
    /\ rStart = 0 /\ rEnd = 0 /\ peeked = <<>> /\ pkOp = "none"
    /\ pkRet = NoneV /\ pkPc = "done" /\ emitted = <<>>
    /\ lzSrc = 0 /\ lzTake = 0 /\ lzPc = "done" /\ lzOut = <<>>

SliceIdle ==
    /\ arr = <<>> /\ size = 1
    /\ wRest = <<>> /\ wDone = TRUE /\ wOut = <<>>
    /\ chRest = <<>> /\ chDone = TRUE /\ chOut = <<>>

FoldIdle ==
    /\ fXs = <<>> /\ fOp = "fold" /\ fF = "add" /\ fInit = 0 /\ fRem = <<>>
    /\ fAcc = 0 /\ fPc = "done" /\ fRes = NoneV /\ fCalls = <<>>

TokIdle ==
    /\ tInput = <<>> /\ tRest = <<>> /\ tFinished = TRUE /\ tOut = <<>>
    /\ tDone = TRUE

(***************************************************************************)
(* MyVectorIter and FullVectorIter (iterator2.rs).  An item is a reference *)
(* into data, so a return value is recorded as Some(position), 0-based.    *)
(***************************************************************************)
MaxLen == 3
MaxVecCalls == MaxLen + 2
VecValues == {5, 10}

SeqsUpTo(S, n) == UNION {[1..k -> S] : k \in 0..n}

\* MyVector::iter and FullVector::iter over the same pushed data: index 0
VecInit ==
    /\ data \in SeqsUpTo(VecValues, MaxLen)
    /\ mvIndex = 0
    /\ mvRets = <<>>
    /\ fvIndex = 0
    /\ fvRets = <<>>
    /\ fvLens = <<>>
    /\ CounterIdle
    /\ PluginIdle
    /\ IterIdle
    /\ SliceIdle
    /\ FoldIdle
    /\ TokIdle

\* next as it would be if it advanced index before looking at the length
MyVectorIterNext_AlwaysAdvances ==
    /\ Len(mvRets) < MaxVecCalls
    /\ mvRets' = Append(mvRets, IF mvIndex < Len(data) THEN Some(mvIndex) ELSE NoneV)
    /\ mvIndex' = mvIndex + 1
    /\ UNCHANGED <<data, fvIndex, fvRets, fvLens, cvars, pvars, ivars, svars, fvars, tvars>>

\* MyVectorIter::next
MyVectorIterNext ==
    /\ Len(mvRets) < MaxVecCalls
    /\ IF mvIndex < Len(data)
         THEN /\ mvRets' = Append(mvRets, Some(mvIndex))
              /\ mvIndex' = mvIndex + 1
         ELSE /\ mvRets' = Append(mvRets, NoneV)
              /\ mvIndex' = mvIndex
    /\ UNCHANGED <<data, fvIndex, fvRets, fvLens, cvars, pvars, ivars, svars, fvars, tvars>>

\* <T: ExactSizeIterator>::len of FullVectorIter
FullVectorIterLen == Len(data) - fvIndex

\* FullVectorIter::next
FullVectorIterNext ==
    /\ Len(fvRets) < MaxVecCalls
    /\ fvLens' = Append(fvLens, FullVectorIterLen)
    /\ IF fvIndex < Len(data)
         THEN /\ fvRets' = Append(fvRets, [op |-> "next", ret |-> Some(fvIndex)])
              /\ fvIndex' = fvIndex + 1
         ELSE /\ fvRets' = Append(fvRets, [op |-> "next", ret |-> NoneV])
              /\ fvIndex' = fvIndex
    /\ UNCHANGED <<data, mvIndex, mvRets, cvars, pvars, ivars, svars, fvars, tvars>>

\* FullVectorIter::next_back: returns data[len - 1 - index], assigns nothing
FullVectorIterNextBack ==
    /\ Len(fvRets) < MaxVecCalls
    /\ fvLens' = Append(fvLens, FullVectorIterLen)
    /\ IF fvIndex < Len(data)
         THEN fvRets' = Append(fvRets, [op |-> "next_back",
                                        ret |-> Some(Len(data) - 1 - fvIndex)])
         ELSE fvRets' = Append(fvRets, [op |-> "next_back", ret |-> NoneV])
    /\ UNCHANGED <<fvIndex, data, mvIndex, mvRets, cvars, pvars, ivars, svars, fvars, tvars>>

VecNext == MyVectorIterNext \/ FullVectorIterNext \/ FullVectorIterNextBack

SpecVec == VecInit /\ [][VecNext]_vars

\* the returns of the next() calls of the FullVectorIter, in call order
RECURSIVE NextRetsOf(_)
NextRetsOf(rs) ==
    IF rs = <<>> THEN <<>>
    ELSE IF Head(rs).op = "next" THEN <<Head(rs).ret>> \o NextRetsOf(Tail(rs))
    ELSE NextRetsOf(Tail(rs))

\* rets is what L-element forward iteration must return call by call
ForwardOrder(rets, L) ==
    \A k \in 1..Len(rets) : rets[k] = IF k <= L THEN Some(k - 1) ELSE NoneV

Min(a, b) == IF a <= b THEN a ELSE b

\* C2: the first L calls of next() return positions 0..L-1 in order, every
\* later call returns None, and index never passes data.len() (it stays at L
\* once L elements were returned) - for MyVectorIter and for FullVectorIter.
C2_ForwardThenDone ==
    /\ ForwardOrder(mvRets, Len(data))
    /\ mvIndex = Min(Len(mvRets), Len(data))
    /\ ForwardOrder(NextRetsOf(fvRets), Len(data))
    /\ fvIndex = Min(Len(NextRetsOf(fvRets)), Len(data))

\* C2 witness: both cursors ran over a 3-element vector and were called
\* twice more after the last element.
C2_Witness ==
    /\ Len(data) = 3
    /\ Len(mvRets) = 5 /\ mvRets[5] = NoneV /\ mvRets[3] = Some(2)
    /\ Len(NextRetsOf(fvRets)) = 5 /\ fvRets[5].ret = NoneV

\* the calls of the FullVectorIter that returned an element
ElementCalls == {k \in 1..Len(fvRets) : fvRets[k].ret # NoneV}

\* C3: under any interleaving of next() and next_back() every position is
\* returned at most once, at most L calls return an element, and once L
\* calls have returned an element every call returns None.
C3_OneStepPerElement ==
    /\ \A i, j \in ElementCalls : i # j => fvRets[i].ret # fvRets[j].ret
    /\ Cardinality(ElementCalls) <= Len(data)
    /\ \A k \in 1..Len(fvRets) :
          Cardinality({i \in ElementCalls : i < k}) = Len(data)
              => fvRets[k].ret = NoneV

\* the calls from call j on that returned an element
ElementCallsFrom(j) == {k \in ElementCalls : k >= j}

\* C12: len() never underflows and is the exact number of calls, next() or
\* next_back(), that still return an element: no more calls than the len()
\* seen at a call return an element from that call on, a call that returns
\* None is preceded by exactly that many, a next() that returns an element
\* lowers len() by 1, and len() is 0 when a call returns None.
C12_LenIsRemaining ==
    /\ FullVectorIterLen >= 0
    /\ \A j \in 1..Len(fvRets) :
          /\ fvLens[j] >= 0
          /\ Cardinality(ElementCallsFrom(j)) <= fvLens[j]
          /\ \A k \in j..Len(fvRets) :
                fvRets[k].ret = NoneV =>
                    Cardinality({i \in ElementCallsFrom(j) : i < k}) = fvLens[j]
          /\ fvRets[j].ret = NoneV => fvLens[j] = 0
          /\ fvRets[j].op = "next" /\ fvRets[j].ret # NoneV =>
                (IF j < Len(fvRets) THEN fvLens[j + 1] ELSE FullVectorIterLen)
                    = fvLens[j] - 1

(***************************************************************************)
(* PluginManager (10_trait_objects.rs).  A Box<dyn Plugin> is modelled by  *)
(* the name of the struct behind it.                                       *)
(***************************************************************************)
MaxPlugins == 3
PluginKinds == {"LoggerPlugin", "MetricsPlugin"}

\* Plugin::name of LoggerPlugin and of MetricsPlugin
PluginName(k) == IF k = "LoggerPlugin" THEN "Logger" ELSE "Metrics"

\* PluginManager::new
PluginInit ==
    /\ plugins = <<>>
    /\ registered = <<>>
    /\ pPc = "idle"
    /\ pI = 0
    /\ pOut = <<>>
    /\ CounterIdle
    /\ VecIdle
    /\ IterIdle
    /\ SliceIdle
    /\ FoldIdle
    /\ TokIdle

\* register as it would be if it kept one implementer per name
Register_UniqueNames(k) ==
    /\ pPc = "idle"
    /\ Len(plugins) < MaxPlugins
    /\ plugins' = IF \E i \in 1..Len(plugins) : PluginName(plugins[i]) = PluginName(k)
                     THEN plugins ELSE Append(plugins, k)
    /\ registered' = Append(registered, k)
    /\ UNCHANGED <<pPc, pI, pOut, cvars, vvars, ivars, svars, fvars, tvars>>

\* PluginManager::register(plugin); &mut self, so no run_all is in progress
Register(k) ==
    /\ pPc = "idle"
    /\ Len(plugins) < MaxPlugins
    /\ plugins' = Append(plugins, k)
    /\ registered' = Append(registered, k)
    /\ UNCHANGED <<pPc, pI, pOut, cvars, vvars, ivars, svars, fvars, tvars>>

\* the loop as it would be if it stopped one entry early
LoopAt_StopsEarly(i) == IF i < Len(plugins) THEN "name" ELSE "idle"

\* where the for loop of run_all goes once entry i-1 is done
LoopAt(i) == IF i <= Len(plugins) THEN "name" ELSE "idle"

\* PluginManager::run_all is entered: the for loop takes its first entry, or
\* ends at once when there is none
RunAllBegin ==
    /\ pPc = "idle"
    /\ pOut' = <<>>
    /\ pI' = 1
    /\ pPc' = LoopAt(1)
    /\ UNCHANGED <<plugins, registered, cvars, vvars, ivars, svars, fvars, tvars>>

\* run_all, loop body: println!("Running plugin: {}", plugin.name())
RunAllName ==
    /\ pPc = "name"
    /\ pOut' = Append(pOut, [call |-> "name", entry |-> pI,
                             name |-> PluginName(plugins[pI])])
    /\ pPc' = "execute"
    /\ UNCHANGED <<pI, plugins, registered, cvars, vvars, ivars, svars, fvars, tvars>>

\* run_all, loop body: plugin.execute(); then the loop takes the next entry
RunAllExecute ==
    /\ pPc = "execute"
    /\ pOut' = Append(pOut, [call |-> "execute", entry |-> pI,
                             name |-> PluginName(plugins[pI])])
    /\ pI' = pI + 1
    /\ pPc' = LoopAt(pI + 1)
    /\ UNCHANGED <<plugins, registered, cvars, vvars, ivars, svars, fvars, tvars>>

RunAllStep == RunAllName \/ RunAllExecute

PluginNext == (\E k \in PluginKinds : Register(k)) \/ RunAllBegin \/ RunAllStep

SpecPlugin == PluginInit /\ [][PluginNext]_vars

\* run_all is straight-line code of one thread: once entered it keeps running
SpecPluginFair == SpecPlugin /\ WF_vars(RunAllStep)

\* C4: the registry is the sequence of registered implementers in call
\* order (so duplicates are kept and the length is the number of calls), and
\* a step that changes it appends one entry and touches no stored entry.
C4_RegisterAppends ==
    /\ [](plugins = registered)
    /\ [][plugins' # plugins =>
            /\ Len(plugins') = Len(plugins) + 1
            /\ SubSeq(plugins', 1, Len(plugins)) = plugins]_vars

\* C4 witness: two implementers of the same name were registered around a
\* third one, and all three are stored.
C4_Witness ==
    /\ Len(registered) = 3
    /\ plugins[1] = "LoggerPlugin"
    /\ plugins[2] = "MetricsPlugin"
    /\ plugins[3] = "LoggerPlugin"

\* the calls a run_all over ps makes up to and including entry n
RunAllCalls(ps, n) ==
    [j \in 1..(2 * n) |->
        [call |-> IF j % 2 = 1 THEN "name" ELSE "execute",
         entry |-> (j + 1) \div 2,
         name |-> PluginName(ps[(j + 1) \div 2])]]

\* C5: a run_all calls name() and then execute() of every entry, once each,
\* in insertion order and nothing else (nothing at all for an empty
\* registry); it leaves the registry as it was; and it terminates.
C5_RunAllInOrder ==
    /\ [](pPc = "name" => pOut = RunAllCalls(plugins, pI - 1))
    /\ [](pPc = "execute" => pOut = Append(RunAllCalls(plugins, pI - 1),
              [call |-> "name", entry |-> pI, name |-> PluginName(plugins[pI])]))
    /\ [](pPc = "idle" /\ pI > 0 =>
              pOut = RunAllCalls(SubSeq(plugins, 1, pI - 1), pI - 1))
    /\ [][pPc # "idle" \/ pPc' # "idle" =>
              /\ plugins' = plugins
              /\ (pPc' = "idle" => pOut' = RunAllCalls(plugins, Len(plugins)))]_vars
    /\ (pPc # "idle" ~> pPc = "idle")

\* C5 witness: a run_all over three entries has finished with six calls.
C5_Witness ==
    /\ pPc = "idle"
    /\ Len(plugins) = 3
    /\ Len(pOut) = 6
    /\ pOut[6].call = "execute" /\ pOut[6].entry = 3

(***************************************************************************)
(* code.rs [4] and [50]: Peekable<Range>, and Take<Map<Filter<RangeFrom>>>.*)
(* The adaptors are those of core::iter; each is modelled by its next().   *)
(***************************************************************************)
PeekEnd == 22
MaxRange == 3
TakeCount == 5

\* Range::next on start..e: [ret, start]
RangeNext(st, e) ==
    IF st < e THEN [ret |-> Some(st), start |-> st + 1]
    ELSE [ret |-> NoneV, start |-> st]

\* peek as it would be if it consumed what it returns
PeekablePeek_Consumes(st, e, pk) ==
    IF pk = <<>>
    THEN LET r == RangeNext(st, e)
         IN [ret |-> r.ret, start |-> r.start, peeked |-> <<>>]
    ELSE [ret |-> pk[1], start |-> st, peeked |-> <<>>]

\* Peekable::peek: fills the peeked slot from the source when it is empty and
\* returns what the slot holds; [ret, start, peeked]
PeekablePeek(st, e, pk) ==
    IF pk = <<>>
    THEN LET r == RangeNext(st, e)
         IN [ret |-> r.ret, start |-> r.start, peeked |-> <<r.ret>>]
    ELSE [ret |-> pk[1], start |-> st, peeked |-> pk]

\* Peekable::next: takes the peeked slot when it is filled, else asks the
\* source; [ret, start, peeked]
PeekableNext(st, e, pk) ==
    IF pk # <<>>
    THEN [ret |-> pk[1], start |-> st, peeked |-> <<>>]
    ELSE LET r == RangeNext(st, e)
         IN [ret |-> r.ret, start |-> r.start, peeked |-> <<>>]

\* (0..e).peekable(), driven by arbitrary calls ("free") or by the while
\* loop of the sample ("peek"); (0..).filter(..).map(..).take(5) before the
\* for loop's first step
IterInit ==
    /\ rStart = 0
    /\ \/ pkPc = "free" /\ rEnd \in 0..MaxRange
       \/ pkPc = "peek" /\ rEnd \in 0..PeekEnd
    /\ peeked = <<>>
    /\ pkOp = "none"
    /\ pkRet = NoneV
    /\ emitted = <<>>
    /\ lzSrc = 0
    /\ lzTake = TakeCount
    /\ lzPc = "loop"
    /\ lzOut = <<>>
    /\ CounterIdle
    /\ VecIdle
    /\ PluginIdle
    /\ SliceIdle
    /\ FoldIdle
    /\ TokIdle

\* it.peek()
PeekCall ==
    /\ pkPc = "free"
    /\ LET r == PeekablePeek(rStart, rEnd, peeked)
       IN /\ rStart' = r.start
          /\ peeked' = r.peeked
          /\ pkRet' = r.ret
    /\ pkOp' = "peek"
    /\ UNCHANGED <<rEnd, pkPc, emitted, lvars, cvars, vvars, pvars, svars, fvars, tvars>>

\* it.next()
NextCall ==
    /\ pkPc = "free"
    /\ LET r == PeekableNext(rStart, rEnd, peeked)
       IN /\ rStart' = r.start
          /\ peeked' = r.peeked
          /\ pkRet' = r.ret
    /\ pkOp' = "next"
    /\ UNCHANGED <<rEnd, pkPc, emitted, lvars, cvars, vvars, pvars, svars, fvars, tvars>>

\* while let Some(&x) = it.peek() { print!("{x} "); ...
LoopPeek ==
    /\ pkPc = "peek"
    /\ LET r == PeekablePeek(rStart, rEnd, peeked)
       IN /\ rStart' = r.start
          /\ peeked' = r.peeked
          /\ pkRet' = r.ret
          /\ IF r.ret # NoneV
               THEN emitted' = Append(emitted, r.ret[1]) /\ pkPc' = "next"
               ELSE emitted' = emitted /\ pkPc' = "done"
    /\ pkOp' = "peek"
    /\ UNCHANGED <<rEnd, lvars, cvars, vvars, pvars, svars, fvars, tvars>>

\* ... it.next(); }
LoopNext ==
    /\ pkPc = "next"
    /\ LET r == PeekableNext(rStart, rEnd, peeked)
       IN /\ rStart' = r.start
          /\ peeked' = r.peeked
          /\ pkRet' = r.ret
    /\ pkOp' = "next"
    /\ pkPc' = "peek"
    /\ UNCHANGED <<rEnd, emitted, lvars, cvars, vvars, pvars, svars, fvars, tvars>>

\* the closures of [50]
IsEven(x) == x % 2 = 0
Square(x) == x * x

\* Filter::next over RangeFrom: pulls the source until the predicate holds;
\* [ret, src] with src the RangeFrom's start afterwards
RECURSIVE FilterNext(_)
FilterNext(src) ==
    IF IsEven(src) THEN [ret |-> Some(src), src |-> src + 1]
    ELSE FilterNext(src + 1)

\* Map::next: applies the closure to what the inner next() returned
MapNext(src) ==
    LET r == FilterNext(src)
    IN [ret |-> IF r.ret = NoneV THEN NoneV ELSE Some(Square(r.ret[1])),
        src |-> r.src]

\* Take::next as it would be if it asked the inner iterator before looking at n
TakeNext_PullsFirst(src, n) ==
    LET r == MapNext(src)
    IN IF n # 0 THEN [ret |-> r.ret, src |-> r.src, n |-> n - 1]
       ELSE [ret |-> NoneV, src |-> r.src, n |-> n]

\* Take::next: asks the inner iterator only while n is not 0; [ret, src, n]
TakeNext(src, n) ==
    IF n # 0
    THEN LET r == MapNext(src) IN [ret |-> r.ret, src |-> r.src, n |-> n - 1]
    ELSE [ret |-> NoneV, src |-> src, n |-> n]

\* for i in iter { print!("{i} "); }: one next() of the chain per step
LazyNext ==
    /\ lzPc = "loop"
    /\ LET r == TakeNext(lzSrc, lzTake)
       IN /\ lzSrc' = r.src
          /\ lzTake' = r.n
          /\ IF r.ret # NoneV
               THEN lzOut' = Append(lzOut, r.ret[1]) /\ lzPc' = "loop"
               ELSE lzOut' = lzOut /\ lzPc' = "done"
    /\ UNCHANGED <<kvars, cvars, vvars, pvars, svars, fvars, tvars>>

LoopStep == LoopPeek \/ LoopNext

IterNext == PeekCall \/ NextCall \/ LoopStep \/ LazyNext

SpecIter == IterInit /\ [][IterNext]_vars

\* both loops are straight-line code: they keep running until they end
SpecIterFair == SpecIter /\ WF_vars(LoopStep) /\ WF_vars(LazyNext)

\* C6: the chain yields 0, 4, 16, 36, 64 one by one, pulls nothing from the
\* source beyond what the yielded elements needed (0..=8 when it ends, so the
\* source stands at 9), and the loop over it terminates after 5 productions.
C6_LazyTake ==
    /\ [](\A k \in 1..Len(lzOut) : lzOut[k] = (2 * (k - 1)) * (2 * (k - 1)))
    /\ [](Len(lzOut) <= 5 /\ lzSrc = IF lzOut = <<>> THEN 0 ELSE 2 * Len(lzOut) - 1)
    /\ [](lzPc = "done" => lzOut = <<0, 4, 16, 36, 64>> /\ lzSrc = 9)
    /\ (lzPc = "loop" ~> lzPc = "done")

\* C6 witness: the for loop over the chain has ended with five prints.
C6_Witness == lzPc = "done" /\ Len(lzOut) = 5 /\ lzTake = 0

\* the sequence 0, 1, ..., n-1
UpTo(n) == [k \in 1..n |-> k - 1]

\* C7: a peek directly after a peek returns the same value; a next directly
\* after a peek returns what the peek returned (so peek is None exactly when
\* next is); and the peek/next loop over 0..e prints 0..e-1 once each (0..21
\* for e = 22) and terminates.
C7_PeekDoesNotAdvance ==
    /\ [][pkOp = "peek" /\ pkOp' = "peek" => pkRet' = pkRet]_vars
    /\ [][pkOp = "peek" /\ pkOp' = "next" => pkRet' = pkRet]_vars
    /\ [](pkPc \in {"peek", "next"} => emitted = UpTo(Len(emitted)))
    /\ [](pkPc = "done" /\ pkOp # "none" => emitted = UpTo(rEnd))
    /\ (pkPc \in {"peek", "next"} ~> pkPc = "done")

\* C7 witness: the loop over 0..22 has ended after printing 22 numbers, 21
\* the last of them.
C7_Witness ==
    /\ pkPc = "done" /\ rEnd = 22 /\ Len(emitted) = 22 /\ emitted[22] = 21

\* C7 witness of the free calls: a peek has returned a value with the cursor
\* already one past it in the source.
C7_PeekedState == pkPc = "free" /\ pkOp = "peek" /\ pkRet = Some(1) /\ rStart = 2

(***************************************************************************)
(* code.rs [9], [10], [47]: slice::windows and slice::chunks, collected.   *)
(* Windows and Chunks are the iterators of core::slice; each holds the     *)
(* part v of the slice it has not passed yet.                              *)
(***************************************************************************)
MaxSlice == 4
DemoLen == 7
SliceValues == {1, 2}

\* the arrays of the samples: [1, 2, ..., k]
Iota(k) == [j \in 1..k |-> j]

\* arr.windows(size) and arr.chunks(size) just constructed (size 0 panics in
\* both constructors, so a constructed iterator has size >= 1)
SliceInit ==
    /\ arr \in SeqsUpTo(SliceValues, MaxSlice) \cup {Iota(k) : k \in 1..DemoLen}
    /\ size \in 1..(Len(arr) + 1)
    /\ wRest = arr /\ wDone = FALSE /\ wOut = <<>>
    /\ chRest = arr /\ chDone = FALSE /\ chOut = <<>>
    /\ CounterIdle
    /\ VecIdle
    /\ PluginIdle
    /\ IterIdle
    /\ FoldIdle
    /\ TokIdle

\* Windows::next as it would be if it stopped when size = v.len()
WindowsNext_StopsEarly(v, n) ==
    IF n >= Len(v) THEN [ret |-> NoneV, v |-> v]
    ELSE [ret |-> Some(SubSeq(v, 1, n)), v |-> SubSeq(v, 2, Len(v))]

\* Windows::next: None when size > v.len(), else the first size elements,
\* and v loses its first element; [ret, v]
WindowsNext(v, n) ==
    IF n > Len(v) THEN [ret |-> NoneV, v |-> v]
    ELSE [ret |-> Some(SubSeq(v, 1, n)), v |-> SubSeq(v, 2, Len(v))]

\* Chunks::next as it would be if it dropped a short last chunk
ChunksNext_DropsRemainder(v, n) ==
    IF Len(v) < n THEN [ret |-> NoneV, v |-> v]
    ELSE [ret |-> Some(SubSeq(v, 1, n)), v |-> SubSeq(v, n + 1, Len(v))]

\* Chunks::next: None when v is empty, else v is split at
\* min(v.len(), chunk_size) and the front part is returned; [ret, v]
ChunksNext(v, n) ==
    IF v = <<>> THEN [ret |-> NoneV, v |-> v]
    ELSE LET chunksz == Min(Len(v), n)
         IN [ret |-> Some(SubSeq(v, 1, chunksz)),
             v |-> SubSeq(v, chunksz + 1, Len(v))]

\* collect() over windows: one next() per step until it returns None
WindowsCollectStep ==
    /\ ~wDone
    /\ LET r == WindowsNext(wRest, size)
       IN /\ wRest' = r.v
          /\ IF r.ret # NoneV
               THEN wOut' = Append(wOut, r.ret[1]) /\ wDone' = FALSE
               ELSE wOut' = wOut /\ wDone' = TRUE
    /\ UNCHANGED <<arr, size, chRest, chDone, chOut, cvars, vvars, pvars, ivars, fvars, tvars>>

\* collect() over chunks: one next() per step until it returns None
ChunksCollectStep ==
    /\ ~chDone
    /\ LET r == ChunksNext(chRest, size)
       IN /\ chRest' = r.v
          /\ IF r.ret # NoneV
               THEN chOut' = Append(chOut, r.ret[1]) /\ chDone' = FALSE
               ELSE chOut' = chOut /\ chDone' = TRUE
    /\ UNCHANGED <<arr, size, wRest, wDone, wOut, cvars, vvars, pvars, ivars, fvars, tvars>>

SliceNext == WindowsCollectStep \/ ChunksCollectStep

SpecSlice == SliceInit /\ [][SliceNext]_vars

\* C8: the i-th window is the size elements of arr from position i on (so
\* it has length size and shares size-1 elements with the next one), and the
\* finished iteration has L-size+1 windows when size <= L and none otherwise.
C8_Windows ==
    /\ \A i \in 1..Len(wOut) :
          /\ Len(wOut[i]) = size
          /\ \A j \in 1..size : i + j - 1 <= Len(arr) /\ wOut[i][j] = arr[i + j - 1]
    /\ \A i \in 1..(Len(wOut) - 1) :
          \A j \in 1..(size - 1) : wOut[i][j + 1] = wOut[i + 1][j]
    /\ wDone => Len(wOut) = IF size <= Len(arr) THEN Len(arr) - size + 1 ELSE 0

\* C8 witness: [1,2,3,4,5].windows(3) collected to [1,2,3],[2,3,4],[3,4,5].
C8_Witness ==
    /\ arr = <<1, 2, 3, 4, 5>> /\ size = 3 /\ wDone
    /\ wOut = << <<1, 2, 3>>, <<2, 3, 4>>, <<3, 4, 5>> >>

\* C8 case size > L: the finished iteration over a 2-element array with
\* size 3 gathered nothing.
C8_TooWide == Len(arr) = 2 /\ size = 3 /\ wDone /\ wOut = <<>>

RECURSIVE Concat(_)
Concat(ss) == IF ss = <<>> THEN <<>> ELSE Head(ss) \o Concat(Tail(ss))

\* C9: the finished iteration has ceil(L/size) chunks, all of length size
\* except the last, which has between 1 and size elements, and the chunks
\* concatenated in order are arr.
C9_Chunks ==
    chDone =>
        /\ Len(chOut) * size >= Len(arr)
        /\ (Len(chOut) - 1) * size < Len(arr)
        /\ \A i \in 1..(Len(chOut) - 1) : Len(chOut[i]) = size
        /\ chOut # <<>> => Len(chOut[Len(chOut)]) \in 1..size
        /\ Concat(chOut) = arr

\* C9 witness: [1,2,3,4,5].chunks(2) collected to [1,2],[3,4],[5].
C9_Witness ==
    /\ arr = <<1, 2, 3, 4, 5>> /\ size = 2 /\ chDone
    /\ chOut = << <<1, 2>>, <<3, 4>>, <<5>> >>

(***************************************************************************)
(* code.rs [20a], [20b]: Iterator::fold and Iterator::reduce over a        *)
(* RangeInclusive.  A result is recorded as Some(value), and as None for   *)
(* the None of reduce.                                                     *)
(***************************************************************************)
MaxHi == 4
FoldLos == {1, 2}
FoldInits == {0, 1}

\* the elements lo..=hi produces (none when lo > hi, as for 1..=0)
RangeInclusive(lo, hi) == [k \in 1..(hi - lo + 1) |-> lo + k - 1]

\* the closures |acc, x| acc + x and |prod, x| prod * x
Closure(f, a, x) == IF f = "add" THEN a + x ELSE a * x

\* (lo..=hi).fold(init, f) or (lo..=hi).reduce(f) is called
FoldInit ==
    /\ \E lo \in FoldLos, hi \in 0..MaxHi : fXs = RangeInclusive(lo, hi)
    /\ fOp \in {"fold", "reduce"}
    /\ fF \in {"add", "mul"}
    /\ fInit \in FoldInits
    /\ fRem = fXs
    /\ fAcc = 0
    /\ fPc = "start"
    /\ fRes = NoneV
    /\ fCalls = <<>>
    /\ CounterIdle
    /\ VecIdle
    /\ PluginIdle
    /\ IterIdle
    /\ SliceIdle
    /\ TokIdle

\* Iterator::fold: let mut accum = init
FoldStart ==
    /\ fPc = "start" /\ fOp = "fold"
    /\ fAcc' = fInit
    /\ fPc' = "loop"
    /\ UNCHANGED <<fXs, fOp, fF, fInit, fRem, fRes, fCalls,
                   cvars, vvars, pvars, ivars, svars, tvars>>

\* reduce as it would be if it fell back to a default for an empty iterator
ReduceStart_Default ==
    /\ fPc = "start" /\ fOp = "reduce"
    /\ IF fRem = <<>>
         THEN /\ fRes' = Some(0)
              /\ fPc' = "done"
              /\ UNCHANGED <<fAcc, fRem>>
         ELSE /\ fAcc' = Head(fRem)
              /\ fRem' = Tail(fRem)
              /\ fPc' = "loop"
              /\ UNCHANGED fRes
    /\ UNCHANGED <<fXs, fOp, fF, fInit, fCalls, cvars, vvars, pvars, ivars, svars, tvars>>

\* Iterator::reduce: let first = self.next()?; then self.fold(first, f)
ReduceStart ==
    /\ fPc = "start" /\ fOp = "reduce"
    /\ IF fRem = <<>>
         THEN /\ fRes' = NoneV
              /\ fPc' = "done"
              /\ UNCHANGED <<fAcc, fRem>>
         ELSE /\ fAcc' = Head(fRem)
              /\ fRem' = Tail(fRem)
              /\ fPc' = "loop"
              /\ UNCHANGED fRes
    /\ UNCHANGED <<fXs, fOp, fF, fInit, fCalls, cvars, vvars, pvars, ivars, svars, tvars>>

\* Iterator::fold: while let Some(x) = self.next() { accum = f(accum, x) }
\* and, at None, accum is returned
FoldStep ==
    /\ fPc = "loop"
    /\ IF fRem = <<>>
         THEN /\ fRes' = Some(fAcc)
              /\ fPc' = "done"
              /\ UNCHANGED <<fAcc, fRem, fCalls>>
         ELSE /\ fAcc' = Closure(fF, fAcc, Head(fRem))
              /\ fCalls' = Append(fCalls, <<fAcc, Head(fRem)>>)
              /\ fRem' = Tail(fRem)
              /\ UNCHANGED <<fRes, fPc>>
    /\ UNCHANGED <<fXs, fOp, fF, fInit, cvars, vvars, pvars, ivars, svars, tvars>>

FoldNext == FoldStart \/ ReduceStart \/ FoldStep

SpecFold == FoldInit /\ [][FoldNext]_vars

\* f applied from the left: f(...f(f(a, s[1]), s[2])..., s[n])
RECURSIVE FoldLeft(_, _, _)
FoldLeft(f, a, s) ==
    IF s = <<>> THEN a ELSE FoldLeft(f, Closure(f, a, Head(s)), Tail(s))

\* the closure calls of a left fold from a over s: (accumulator, element)
RECURSIVE FoldLeftCalls(_, _, _)
FoldLeftCalls(f, a, s) ==
    IF s = <<>> THEN <<>>
    ELSE << <<a, Head(s)>> >> \o FoldLeftCalls(f, Closure(f, a, Head(s)), Tail(s))

\* C10: reduce over no elements returns None and never calls f; fold over no
\* elements returns init; reduce over elements returns the left fold of the
\* remaining elements from the first one, calling f left to right, which is
\* what fold returns for that initial value and those elements.
C10_AbsenceIsAValue ==
    fPc = "done" =>
        /\ fOp = "reduce" /\ fXs = <<>> => fRes = NoneV /\ fCalls = <<>>
        /\ fOp = "fold" /\ fXs = <<>> => fRes = Some(fInit)
        /\ fOp = "reduce" /\ fXs # <<>> =>
              /\ fRes = Some(FoldLeft(fF, Head(fXs), Tail(fXs)))
              /\ fCalls = FoldLeftCalls(fF, Head(fXs), Tail(fXs))
        /\ fOp = "fold" =>
              /\ fRes = Some(FoldLeft(fF, fInit, fXs))
              /\ fCalls = FoldLeftCalls(fF, fInit, fXs)

\* C10 witness: (1..=0).reduce(+) has returned None without a call of +.
C10_Witness ==
    /\ fPc = "done" /\ fOp = "reduce" /\ fXs = <<>> /\ fRes = NoneV /\ fCalls = <<>>

(***************************************************************************)
(* code.rs [46]: "1,2,3,g".split(",").map(|x| x.parse().unwrap_or(0))      *)
(* collected into a Vec<i32>.  A string is a sequence of one-character     *)
(* strings.                                                                *)
(***************************************************************************)
MaxStr == 3
I32Max == 2147483647
TokChars == {"1", "g", ",", "-"}
Digits == {"0", "1", "2", "3", "4", "5", "6", "7", "8", "9"}

\* the string literal of [46]
DemoString == <<"1", ",", "2", ",", "3", ",", "g">>

\* char::to_digit(10) of a decimal digit
DigitVal(c) ==
    CASE c = "0" -> 0 [] c = "1" -> 1 [] c = "2" -> 2 [] c = "3" -> 3
      [] c = "4" -> 4 [] c = "5" -> 5 [] c = "6" -> 6 [] c = "7" -> 7
      [] c = "8" -> 8 [] c = "9" -> 9

\* the digits of a string read as a decimal number, most significant first
RECURSIVE Decimal(_, _)
Decimal(acc, str) ==
    IF str = <<>> THEN acc ELSE Decimal(10 * acc + DigitVal(Head(str)), Tail(str))

\* str::parse::<i32>: Some(n) for Ok(n), None for Err: an optional sign, then
\* at least one character, all of them digits, and a value that fits an i32
ParseI32(str) ==
    LET signed == str # <<>> /\ Head(str) \in {"-", "+"}
        body == IF signed THEN Tail(str) ELSE str
        val == IF signed /\ Head(str) = "-" THEN 0 - Decimal(0, body)
               ELSE Decimal(0, body)
    IN IF body = <<>> \/ \E k \in 1..Len(body) : body[k] \notin Digits
       THEN NoneV
       ELSE IF val > I32Max \/ val < 0 - I32Max - 1 THEN NoneV ELSE Some(val)

\* Result::unwrap_or(0) on what parse returned
UnwrapOr0(r) == IF r = NoneV THEN 0 ELSE r[1]

\* the position of the first "," in str, 0 when there is none
FirstComma(str) ==
    IF \E k \in 1..Len(str) : str[k] = ","
    THEN CHOOSE k \in 1..Len(str) : str[k] = "," /\ \A j \in 1..(k - 1) : str[j] # ","
    ELSE 0

\* Split::next: None once finished; else the part before the next ",", and
\* when no "," is left the rest itself (empty or not) as the last part;
\* [ret, rest, finished]
SplitNext(rest, finished) ==
    IF finished THEN [ret |-> NoneV, rest |-> rest, finished |-> TRUE]
    ELSE LET k == FirstComma(rest)
         IN IF k = 0
            THEN [ret |-> Some(rest), rest |-> <<>>, finished |-> TRUE]
            ELSE [ret |-> Some(SubSeq(rest, 1, k - 1)),
                  rest |-> SubSeq(rest, k + 1, Len(rest)), finished |-> FALSE]

\* input.split(",").map(..) just built, before collect's first next()
TokInit ==
    /\ tInput \in SeqsUpTo(TokChars, MaxStr) \cup {DemoString}
    /\ tRest = tInput
    /\ tFinished = FALSE
    /\ tOut = <<>>
    /\ tDone = FALSE
    /\ CounterIdle
    /\ VecIdle
    /\ PluginIdle
    /\ IterIdle
    /\ SliceIdle
    /\ FoldIdle

\* collect(): one next() of the Map over the Split per step; every part is
\* parsed and pushed, 0 in place of a part that does not parse
ParseCollectStep ==
    /\ ~tDone
    /\ LET r == SplitNext(tRest, tFinished)
       IN /\ tRest' = r.rest
          /\ tFinished' = r.finished
          /\ IF r.ret # NoneV
               THEN tOut' = Append(tOut, UnwrapOr0(ParseI32(r.ret[1]))) /\ tDone' = FALSE
               ELSE tOut' = tOut /\ tDone' = TRUE
    /\ UNCHANGED <<tInput, cvars, vvars, pvars, ivars, svars, fvars>>

TokNext == ParseCollectStep

SpecTok == TokInit /\ [][TokNext]_vars

\* C11: the pipeline over "1,2,3,g" collects exactly [1, 2, 3].
C11_ParsesToOneTwoThree ==
    tDone /\ tInput = DemoString => tOut = <<1, 2, 3>>

(***************************************************************************)
(* Counter (iterator.rs).  u32 is scaled to U32Bits bits so that the       *)
(* wrap-around of count is within reach of exhaustive exploration.         *)
(***************************************************************************)
U32Bits == 4
RECURSIVE Pow2(_)
Pow2(n) == IF n = 0 THEN 1 ELSE 2 * Pow2(n - 1)
U32Max == Pow2(U32Bits) - 1

\* Counter::new(max): count starts at 0
CounterNew(m) ==
    /\ count = 0
    /\ max = m
    /\ cRet = NoneV
    /\ cState = "fresh"
    /\ cExhausted = FALSE
    /\ cHist = <<>>

CounterInit == (\E m \in 0..U32Max : CounterNew(m)) /\ VecIdle /\ PluginIdle /\ IterIdle /\ SliceIdle /\ FoldIdle /\ TokIdle

\* the comparison as it would be if max itself were produced
CounterResult_Inclusive(c, m) == IF c <= m THEN Some(c) ELSE NoneV

\* the value next() returns once count has been incremented to c
CounterResult(c, m) == IF c < m THEN Some(c) ELSE NoneV

\* Counter::next, count + 1 fits in u32
CounterNextPlain ==
    /\ cState # "panicked"
    /\ count < U32Max
    /\ count' = count + 1
    /\ cRet' = CounterResult(count + 1, max)
    /\ cState' = "returned"
    /\ cExhausted' = (cExhausted \/ cRet' = NoneV)
    /\ cHist' = IF cExhausted THEN cHist ELSE Append(cHist, cRet')
    /\ UNCHANGED <<max, vvars, pvars, ivars, svars, fvars, tvars>>

\* Counter::next, count += 1 overflows: a build without overflow checks
\* wraps to 0 and goes on to the comparison
CounterNextWrap ==
    /\ cState # "panicked"
    /\ count = U32Max
    /\ count' = 0
    /\ cRet' = CounterResult(0, max)
    /\ cState' = "returned"
    /\ cExhausted' = (cExhausted \/ cRet' = NoneV)
    /\ cHist' = IF cExhausted THEN cHist ELSE Append(cHist, cRet')
    /\ UNCHANGED <<max, vvars, pvars, ivars, svars, fvars, tvars>>

\* Counter::next, count += 1 overflows: a build with overflow checks panics
\* ("attempt to add with overflow") and the call returns nothing
CounterNextPanic ==
    /\ cState # "panicked"
    /\ count = U32Max
    /\ cState' = "panicked"
    /\ cRet' = NoneV
    /\ UNCHANGED <<count, max, cExhausted, cHist, vvars, pvars, ivars, svars, fvars, tvars>>

CounterNext == CounterNextPlain \/ CounterNextWrap \/ CounterNextPanic

SpecCounter == CounterInit /\ [][CounterNext]_vars

\* C1: once next() has returned None, every later call of next() returns
\* None as well (the call returns, and what it returns is None).
C1_NoResurrection ==
    [][cExhausted => (cState' = "returned" /\ cRet' = NoneV)]_vars

\* C13: the calls of next() up to the first None return 1, 2, ..., max-1 in
\* this order and then None, so neither 0 nor max is produced and the None
\* comes with call number max, or with the first call when max is 0 or 1.
C13_OneToMaxMinusOne ==
    /\ \A k \in 1..Len(cHist) : cHist[k] = IF k < max THEN Some(k) ELSE NoneV
    /\ cState = "fresh" <=> cHist = <<>>
    /\ cExhausted => Len(cHist) = IF max <= 1 THEN 1 ELSE max

\* C13 witness: Counter::new(3) has returned 1, 2 and None.
C13_Witness ==
    /\ max = 3 /\ cExhausted /\ cHist = <<Some(1), Some(2), NoneV>>

\* C13 case max = 0: the first call has returned None.
C13_ZeroMax == max = 0 /\ count = 1 /\ cHist = <<NoneV>>

====
